---- MODULE Spec2Model ----
(***************************************************************************)
(* GEN QUIZ AI (qachatbot.py): the MCQ parser, the per-question selection  *)
(* and reveal state kept in the Streamlit session, the run history and its *)
(* JSON file, and the handlers that tie them together.                     *)
(*                                                                         *)
(* A Python str is modelled as a sequence of one-character strings, so     *)
(* that strip, split, the regular expressions and lower() are computed     *)
(* character by character as the code computes them.                       *)
(***************************************************************************)
EXTENDS Integers, Sequences, FiniteSets, TLC

VARIABLES
    llm,             \* result of get_llm: "none" or "client"
    history,         \* st.session_state.history
    history_file,    \* content of HISTORY_FILE (quiz_history.json)
    messages,        \* number of entries of st.session_state.messages
    current_blocks,  \* st.session_state.current_blocks
    current_raw,     \* st.session_state.current_raw
    current_topic,   \* st.session_state.current_topic
    current_num,     \* st.session_state.current_num
    sel,             \* the sel_<qid> keys of the session: qid -> letter
    rev,             \* the rev_<qid> keys of the session (all set to True)
    llm_calls,       \* number of invocations of the model chain
    assigned,        \* ids handed out since the history was last cleared (history variable)
    notice,          \* message emitted by the last handler
    text,            \* parser harness: the raw text under test
    out,             \* parser harness: parse_mcqs(text) once called
    called           \* parser harness: parse_mcqs has been applied

vars == <<llm, history, history_file, messages, current_blocks, current_raw,
          current_topic, current_num, sel, rev, llm_calls, assigned, notice,
          text, out, called>>

sessionVars == <<llm, history, history_file, messages, current_blocks,
                 current_raw, current_topic, current_num, sel, rev, llm_calls,
                 assigned, notice>>

harnessVars == <<text, out, called>>

(***************************************************************************)
(* Bounds of the exploration.                                              *)
(***************************************************************************)
MaxGen == 3      \* accepted generate actions per session
MaxLines == 6    \* lines of a raw text handed to the parser harness

(***************************************************************************)
(* Characters.                                                             *)
(***************************************************************************)
UpperSeq == <<"A","B","C","D","E","F","G","H","I","J","K","L","M",
              "N","O","P","Q","R","S","T","U","V","W","X","Y","Z">>
LowerSeq == <<"a","b","c","d","e","f","g","h","i","j","k","l","m",
              "n","o","p","q","r","s","t","u","v","w","x","y","z">>
Digits == {"0","1","2","3","4","5","6","7","8","9"}
Uppers == {UpperSeq[k] : k \in 1..26}
Lowers == {LowerSeq[k] : k \in 1..26}

\* str.isspace / the regex class \s, on the characters the model uses
IsSpace(c) == c \in {" ", "\t", "\n", "\r"}
\* the regex class \d
IsDigit(c) == c \in Digits
\* the regex class \w (its complement decides \b)
IsWord(c) == c \in Digits \cup Uppers \cup Lowers \cup {"_"}
\* the line boundaries of str.splitlines
IsLineBreak(c) == c \in {"\n", "\r"}

\* str.lower, one character
LowerChar(c) ==
    IF c \in Uppers THEN LowerSeq[CHOOSE k \in 1..26 : UpperSeq[k] = c] ELSE c

\* str.lower
Lower(s) == [k \in 1..Len(s) |-> LowerChar(s[k])]

\* s[i..j] as Python's s[i-1:j]
Slice(s, i, j) == IF i > j THEN <<>> ELSE SubSeq(s, i, j)

\* str.strip: drop leading and trailing whitespace
Strip(s) ==
    LET keep == {k \in 1..Len(s) : ~IsSpace(s[k])}
    IN  IF keep = {} THEN <<>>
        ELSE LET lo == CHOOSE k \in keep : \A m \in keep : k <= m
                 hi == CHOOSE k \in keep : \A m \in keep : k >= m
             IN  SubSeq(s, lo, hi)

\* the pieces of s between the positions of cuts (a set of positions in
\* 1..Len(s)); a piece starts at every cut and at position 1
RECURSIVE PiecesFrom(_, _, _)
PiecesFrom(s, start, cuts) ==
    LET later == {k \in cuts : k > start}
    IN  IF later = {} THEN <<Slice(s, start, Len(s))>>
        ELSE LET nxt == CHOOSE k \in later : \A m \in later : k <= m
             IN  <<Slice(s, start, nxt - 1)>> \o PiecesFrom(s, nxt, cuts)

\* str.splitlines: the lines of s, line breaks removed
RECURSIVE SplitLines(_)
SplitLines(s) ==
    LET brk == {k \in 1..Len(s) : IsLineBreak(s[k])}
    IN  IF s = <<>> THEN <<>>
        ELSE IF brk = {} THEN <<s>>
        ELSE LET b == CHOOSE k \in brk : \A m \in brk : k <= m
             IN  <<Slice(s, 1, b - 1)>> \o SplitLines(Slice(s, b + 1, Len(s)))

\* drop the empty strings of a sequence of strings
RECURSIVE NonEmptyOnly(_)
NonEmptyOnly(ss) ==
    IF ss = <<>> THEN <<>>
    ELSE IF Head(ss) = <<>> THEN NonEmptyOnly(Tail(ss))
    ELSE <<Head(ss)>> \o NonEmptyOnly(Tail(ss))

\* [l.strip() for l in block.splitlines() if l.strip()]
BlockLines(block) ==
    LET ls == SplitLines(block)
    IN  NonEmptyOnly([k \in 1..Len(ls) |-> Strip(ls[k])])

(***************************************************************************)
(* parse_mcqs                                                              *)
(***************************************************************************)
\* end of the run of digits that starts at position p (p itself when none)
DigitRunEnd(s, p) ==
    CHOOSE k \in p..(Len(s) + 1) :
        /\ \A m \in p..(k - 1) : IsDigit(s[m])
        /\ (k = Len(s) + 1 \/ ~IsDigit(s[k]))

\* end of the run of whitespace that starts at position p (p itself when none)
SpaceRunEnd(s, p) ==
    CHOOSE k \in p..(Len(s) + 1) :
        /\ \A m \in p..(k - 1) : IsSpace(s[m])
        /\ (k = Len(s) + 1 \/ ~IsSpace(s[k]))

\* the lookahead \d+\.\s holds at position p
NumberedAt(s, p) ==
    LET e == DigitRunEnd(s, p)
    IN  /\ e > p
        /\ e + 1 <= Len(s)
        /\ s[e] = "."
        /\ IsSpace(s[e + 1])

\* the positions where (?m)^(?=\d+\.\s) matches
SplitPoints(s) ==
    {p \in 1..Len(s) : (p = 1 \/ s[p - 1] = "\n") /\ NumberedAt(s, p)}

\* re.split(r'(?m)^(?=\d+\.\s)', s): a match at the very start leaves an
\* empty first part
SplitBlocks(s) ==
    LET cuts == SplitPoints(s)
    IN  IF 1 \in cuts THEN <<<<>>>> \o PiecesFrom(s, 1, cuts)
        ELSE PiecesFrom(s, 1, cuts)

\* re.sub(r'^\d+\.\s*', '', line)
StripNumber(line) ==
    LET e == DigitRunEnd(line, 1)
    IN  IF e > 1 /\ e <= Len(line) /\ line[e] = "."
        THEN Slice(line, SpaceRunEnd(line, e + 1), Len(line))
        ELSE line

OptionLetters == {"a", "b", "c", "d"}

\* opt_pat.match(line): ^([a-dA-D])[\.\)]\s+(.*)$
OptMatches(line) ==
    /\ Len(line) >= 3
    /\ LowerChar(line[1]) \in OptionLetters
    /\ line[2] \in {".", ")"}
    /\ IsSpace(line[3])

\* f"{letter}) {text_only}" of a line that opt_pat matches
OptionOf(line) ==
    <<LowerChar(line[1]), ")", " ">>
        \o Strip(Slice(line, SpaceRunEnd(line, 3), Len(line)))

\* options_raw: one entry per line of lines[1:] that opt_pat matches
RECURSIVE OptionsRaw(_)
OptionsRaw(ls) ==
    IF ls = <<>> THEN <<>>
    ELSE IF OptMatches(Head(ls)) THEN <<OptionOf(Head(ls))>> \o OptionsRaw(Tail(ls))
    ELSE OptionsRaw(Tail(ls))

AnswerWord == <<"a", "n", "s", "w", "e", "r", ":">>

\* answer:\s*([a-dA-D])\b matches at position p of line, case-insensitively
AnswerAt(line, p) ==
    /\ p + 6 <= Len(line)
    /\ Lower(SubSeq(line, p, p + 6)) = AnswerWord
    /\ LET q == SpaceRunEnd(line, p + 7)
       IN  /\ q <= Len(line)
           /\ LowerChar(line[q]) \in OptionLetters
           /\ (q = Len(line) \/ ~IsWord(line[q + 1]))

\* re.search finds a match in line
HasAnswer(line) == \E p \in 1..Len(line) : AnswerAt(line, p)

\* m.group(1).lower() of the leftmost match
AnswerOf(line) ==
    LET ps == {p \in 1..Len(line) : AnswerAt(line, p)}
        p == CHOOSE k \in ps : \A m \in ps : k <= m
    IN  <<LowerChar(line[SpaceRunEnd(line, p + 7)])>>

\* ans without the break: the letter of the last line with a match
RECURSIVE FindAnswerLast(_)
FindAnswerLast(ls) ==
    IF ls = <<>> THEN <<>>
    ELSE LET later == FindAnswerLast(Tail(ls))
         IN  IF later # <<>> THEN later
             ELSE IF HasAnswer(Head(ls)) THEN AnswerOf(Head(ls))
             ELSE <<>>

\* ans: the letter of the first line with a match, "" when there is none
RECURSIVE FindAnswer(_)
FindAnswer(ls) ==
    IF ls = <<>> THEN <<>>
    ELSE IF HasAnswer(Head(ls)) THEN AnswerOf(Head(ls))
    ELSE FindAnswer(Tail(ls))

\* options_raw[-4:]
LastFour(opts) ==
    IF Len(opts) > 4 THEN SubSeq(opts, Len(opts) - 3, Len(opts)) ELSE opts

\* options_raw[:4]
FirstFour(opts) == IF Len(opts) > 4 THEN SubSeq(opts, 1, 4) ELSE opts

\* Emits without the test of q_line
EmitsWithoutQuestion(q_line, options_raw) == options_raw # <<>>

\* the condition under which a block is appended to out
Emits(q_line, options_raw) == q_line # <<>> /\ options_raw # <<>>

\* what one part of the split contributes to out: <<record>> or <<>>
ParseBlock(part) ==
    LET lines == BlockLines(Strip(part))
    IN  IF lines = <<>> THEN <<>>
        ELSE LET q_line == StripNumber(lines[1])
                 options_raw == OptionsRaw(Tail(lines))
                 ans == FindAnswer(lines)
             IN  IF Emits(q_line, options_raw)
                 THEN <<[question |-> q_line,
                         options |-> FirstFour(options_raw),
                         answer |-> ans]>>
                 ELSE <<>>

RECURSIVE ParseParts(_)
ParseParts(parts) ==
    IF parts = <<>> THEN <<>>
    ELSE ParseBlock(Head(parts)) \o ParseParts(Tail(parts))

parse_mcqs(raw) == ParseParts(SplitBlocks(Strip(raw)))

\* opt.split(')')[0].strip().lower(): the letter a rendered option carries
OptLetter(opt) ==
    LET close == {k \in 1..Len(opt) : opt[k] = ")"}
        first == IF close = {} THEN Len(opt) + 1
                 ELSE CHOOSE k \in close : \A m \in close : k <= m
    IN  Lower(Strip(Slice(opt, 1, first - 1)))

(***************************************************************************)
(* Inputs of the session: what the user can type, what the environment     *)
(* holds and what the model may answer.                                    *)
(***************************************************************************)
\* a secret or environment value: absent (None) or a string
NoValue == [set |-> FALSE, value |-> <<>>]
KeyValues == {NoValue,
              [set |-> TRUE, value |-> <<>>],
              [set |-> TRUE, value |-> <<"k">>]}

\* Python truthiness of an optional string
Truthy(v) == v.set /\ v.value # <<>>

\* the topic text box: empty, whitespace only, and a padded topic
TopicInputs == {<<>>, <<" ", "\t">>, <<" ", "T">>}

\* st.number_input(min_value=1, max_value=20)
MinQuestions == 1
MaxQuestions == 20
Counts == {MinQuestions, MaxQuestions}

\* datetime.now().strftime(...) at the moment of a generation
Timestamps == {"2024-01-01 09:00"}

\* "1. Q\na) x\nB. y\nAnswer: b\n2. R\nc) z": two questions, the second
\* without an answer line
TextTwo == <<"1", ".", " ", "Q", "\n", "a", ")", " ", "x", "\n",
             "B", ".", " ", "y", "\n",
             "A", "n", "s", "w", "e", "r", ":", " ", "b", "\n",
             "2", ".", " ", "R", "\n", "c", ")", " ", "z">>
\* "1. S\nd) w\nanswer: D": one question
TextOne == <<"1", ".", " ", "S", "\n", "d", ")", " ", "w", "\n",
             "a", "n", "s", "w", "e", "r", ":", " ", "D">>

\* "Sorry, no questions.": nothing the parser recognises
TextNone == <<"S", "o", "r", "r", "y", ",", " ", "n", "o", " ",
              "q", "u", "e", "s", "t", "i", "o", "n", "s", ".">>

\* the raw texts the model chain may return
ModelTexts == {TextTwo, TextOne, TextNone}

(***************************************************************************)
(* Persistence and credentials.                                            *)
(***************************************************************************)
\* HISTORY_FILE before the first save: absent, unreadable, or an empty list
FileAbsent == [exists |-> FALSE, valid |-> FALSE, items |-> <<>>]
FileCorrupt == [exists |-> TRUE, valid |-> FALSE, items |-> <<>>]

load_history(file) ==
    IF file.exists /\ file.valid THEN file.items ELSE <<>>

\* save_history writing repr(items), which json.loads rejects
save_historyRepr(items) == [exists |-> TRUE, valid |-> FALSE, items |-> items]

\* the file content after save_history(items)
save_history(items) == [exists |-> TRUE, valid |-> TRUE, items |-> items]

get_api_key(secret, env) == IF Truthy(secret) THEN secret ELSE env

get_llm(api_key) == IF ~Truthy(api_key) THEN "none" ELSE "client"

(***************************************************************************)
(* History.                                                                *)
(***************************************************************************)
\* new_id as the number of records plus one
NewIdByCount(items) == Len(items) + 1

\* new_id as the smallest id not in use
NewIdLowestFree(items) ==
    LET used == {items[k].id : k \in 1..Len(items)}
    IN  CHOOSE i \in 1..(Len(items) + 1) :
            i \notin used /\ \A j \in 1..(i - 1) : j \in used

\* new_id of add_to_history
NewId(items) == IF items # <<>> THEN items[Len(items)].id + 1 ELSE 1

\* add_to_history putting the new record first
add_to_historyFront(items, topic, num, response, ts) ==
    <<[id |-> IF items # <<>> THEN items[Len(items)].id + 1 ELSE 1,
       ts |-> ts, topic |-> topic, num |-> num, response |-> response]>>
        \o items

\* st.session_state.history after add_to_history(topic, num, response)
add_to_history(items, topic, num, response, ts) ==
    Append(items, [id |-> NewId(items), ts |-> ts, topic |-> topic,
                   num |-> num, response |-> response])

\* the filter applied to the newest-first list the tab displays
DeleteFromDisplayed(items, id) ==
    LET kept == SelectSeq(items, LAMBDA x : x.id # id)
    IN  [k \in 1..Len(kept) |-> kept[Len(kept) + 1 - k]]

\* the Delete filter keeping only the records newer than the clicked one
DeleteByIdAndOlder(items, id) == SelectSeq(items, LAMBDA x : x.id > id)

\* [x for x in history if x["id"] != id]
DeleteById(items, id) == SelectSeq(items, LAMBDA x : x.id # id)

(***************************************************************************)
(* Selection state.                                                        *)
(***************************************************************************)
\* clear_selection_state deleting the keys of range(_max_q) only
KeptKeysBelow(keys, max_q) == {k \in keys : k >= max_q}

\* the qids whose sel_/rev_ key survives clear_selection_state(_max_q)
KeptKeys(keys, max_q) == {}

\* st.session_state.get(sel_key) is set (a letter is never empty)
Chosen(qid) == qid \in DOMAIN sel
\* st.session_state.get(rev_key, False)
Revealed(qid) == qid \in rev

\* the qids render_mcq_interactive is called for
Qids == 0..(Len(current_blocks) - 1)
Block(qid) == current_blocks[qid + 1]
\* the letters of the option buttons of question qid
ButtonLetters(qid) ==
    {OptLetter(Block(qid).options[k]) : k \in 1..Len(Block(qid).options)}

\* the option buttons rendered whenever the question is not revealed
ChooseOfferedWhenSelected(qid) == qid \in Qids /\ ~(qid \in rev)

\* the option buttons are rendered
ChooseOffered(qid) == qid \in Qids /\ ~Chosen(qid) /\ ~Revealed(qid)
\* "Show answer" is rendered (button reveal-<qid> or reveal2-<qid>)
RevealOffered(qid) == qid \in Qids /\ ~Revealed(qid)
\* "Change selection" rendered without the test of revealed
ChangeOfferedAfterReveal(qid) ==
    qid \in Qids /\ ~(~(qid \in DOMAIN sel) /\ ~(qid \in rev))

\* "Change selection" is rendered
ChangeOffered(qid) ==
    qid \in Qids /\ ~(~Chosen(qid) /\ ~Revealed(qid)) /\ ~Revealed(qid)

\* dict with key qid set to v
Put(f, qid, v) ==
    [k \in DOMAIN f \cup {qid} |-> IF k = qid THEN v ELSE f[k]]
\* dict restricted to keys
Restrict(f, keys) == [k \in DOMAIN f \cap keys |-> f[k]]

(***************************************************************************)
(* Rendering of the option tiles.                                          *)
(***************************************************************************)
\* tiles are drawn instead of buttons: not (not chosen and not revealed)
TilesShown(qid) == qid \in Qids /\ ~(~Chosen(qid) /\ ~Revealed(qid))

\* the revealed branch colouring like the selected branch
TileCssRevealAsSelected(letter, has_choice, chosen, revealed, correct_letter) ==
    IF has_choice /\ chosen = letter
    THEN (IF letter = correct_letter THEN "option-correct" ELSE "option-wrong")
    ELSE "option-neutral"

\* the revealed branch without its option-wrong case
TileCssNoWrongOnReveal(letter, has_choice, chosen, revealed, correct_letter) ==
    IF revealed
    THEN IF letter = correct_letter THEN "option-correct" ELSE "option-neutral"
    ELSE IF has_choice /\ chosen = letter
         THEN (IF letter = correct_letter THEN "option-correct"
               ELSE "option-wrong")
         ELSE "option-neutral"

\* the selected branch colouring like the revealed branch
TileCssSelectedAsRevealed(letter, has_choice, chosen, revealed, correct_letter) ==
    IF letter = correct_letter THEN "option-correct"
    ELSE IF has_choice /\ chosen # <<>> /\ letter = chosen
              /\ chosen # correct_letter
         THEN "option-wrong"
         ELSE "option-neutral"

\* css of one tile; has_choice is "the sel key is set", chosen its value
TileCss(letter, has_choice, chosen, revealed, correct_letter) ==
    IF revealed
    THEN IF letter = correct_letter THEN "option-correct"
         ELSE IF has_choice /\ chosen # <<>> /\ letter = chosen
                   /\ chosen # correct_letter
              THEN "option-wrong"
              ELSE "option-neutral"
    ELSE IF has_choice /\ chosen = letter
         THEN (IF letter = correct_letter THEN "option-correct"
               ELSE "option-wrong")
         ELSE "option-neutral"

\* css of the tile of option k of question qid in the current state
Css(qid, k) ==
    TileCss(OptLetter(Block(qid).options[k]),
            Chosen(qid),
            IF Chosen(qid) THEN sel[qid] ELSE <<>>,
            Revealed(qid),
            Block(qid).answer)

(***************************************************************************)
(* The session: one action per handler.                                    *)
(***************************************************************************)
\* the Generate handler without its test of llm
ServiceNotReadyNever(l) == FALSE

\* the Generate handler testing topic instead of topic.strip()
TopicMissingNoStrip(topic) == topic = <<>>

\* parse_mcqs tabulated once over the texts the model may return
ParsedModelTexts == [t \in ModelTexts |-> parse_mcqs(t)]

\* parse_mcqs(raw), read from the table when raw is one of its texts
Parse(raw) ==
    IF raw \in ModelTexts THEN ParsedModelTexts[raw] ELSE parse_mcqs(raw)

\* "if not llm" of the Generate handler
ServiceNotReady(l) == l = "none"

\* "elif not topic.strip()" of the Generate handler
TopicMissing(topic) == Strip(topic) = <<>>

\* the texts the chain may return for invoke({topic, num_questions})
ModelClient(topic, num) == ModelTexts

Init ==
    /\ \E secret \in KeyValues, env \in KeyValues :
           llm = get_llm(get_api_key(secret, env))
    /\ history_file \in {FileAbsent, FileCorrupt, save_history(<<>>)}
    /\ history = load_history(history_file)
    /\ messages = 0
    /\ current_blocks = <<>>
    /\ current_raw = <<>>
    /\ current_topic = <<>>
    /\ current_num = 0
    /\ sel = [k \in {} |-> <<>>]
    /\ rev = {}
    /\ llm_calls = 0
    /\ assigned = {}
    /\ notice = "none"
    /\ text = <<>>
    /\ out = <<>>
    /\ called = FALSE

\* "Generate MCQs" clicked with the topic and the number in the inputs
Generate(topic, num) ==
    /\ UNCHANGED harnessVars
    /\ IF ServiceNotReady(llm)
       THEN /\ notice' = "missing_key"
            /\ UNCHANGED <<llm, history, history_file, messages, current_blocks,
                           current_raw, current_topic, current_num, sel, rev,
                           llm_calls, assigned>>
       ELSE IF TopicMissing(topic)
       THEN /\ notice' = "enter_topic"
            /\ UNCHANGED <<llm, history, history_file, messages, current_blocks,
                           current_raw, current_topic, current_num, sel, rev,
                           llm_calls, assigned>>
       ELSE /\ llm_calls < MaxGen
            /\ \E raw \in ModelClient(Strip(topic), num), ts \in Timestamps :
                  LET blocks == Parse(raw)
                      items == add_to_history(history, topic, num, raw, ts)
                  IN  /\ llm_calls' = llm_calls + 1
                      /\ current_blocks' = blocks
                      /\ current_raw' = raw
                      /\ current_topic' = topic
                      /\ current_num' = num
                      /\ sel' = Restrict(sel, KeptKeys(DOMAIN sel, Len(blocks)))
                      /\ rev' = KeptKeys(rev, Len(blocks))
                      /\ messages' = messages + 2
                      /\ history' = items
                      /\ history_file' = save_history(items)
                      /\ assigned' = assigned \cup {NewId(history)}
                      /\ notice' = "none"
                      /\ UNCHANGED llm

\* an option button of question qid clicked
Choose(qid, letter) ==
    /\ ChooseOffered(qid)
    /\ letter \in ButtonLetters(qid)
    /\ sel' = Put(sel, qid, letter)
    /\ notice' = "none"
    /\ UNCHANGED <<llm, history, history_file, messages, current_blocks,
                   current_raw, current_topic, current_num, rev, llm_calls,
                   assigned>>
    /\ UNCHANGED harnessVars

\* "Show answer" of question qid clicked
Reveal(qid) ==
    /\ RevealOffered(qid)
    /\ rev' = rev \cup {qid}
    /\ notice' = "none"
    /\ UNCHANGED <<llm, history, history_file, messages, current_blocks,
                   current_raw, current_topic, current_num, sel, llm_calls,
                   assigned>>
    /\ UNCHANGED harnessVars

\* "Change selection" of question qid clicked
ChangeSelection(qid) ==
    /\ ChangeOffered(qid)
    /\ sel' = Restrict(sel, DOMAIN sel \ {qid})
    /\ notice' = "none"
    /\ UNCHANGED <<llm, history, history_file, messages, current_blocks,
                   current_raw, current_topic, current_num, rev, llm_calls,
                   assigned>>
    /\ UNCHANGED harnessVars

\* "Load this set" asking the model again instead of using the stored text
LoadRefetching(k) ==
    /\ k \in 1..Len(history)
    /\ notice' = "loaded"
    /\ llm_calls' = llm_calls + 1
    /\ \E raw \in ModelClient(Strip(history[k].topic), history[k].num) :
           /\ current_raw' = raw
           /\ current_blocks' = Parse(raw)
    /\ current_topic' = history[k].topic
    /\ current_num' = history[k].num
    /\ sel' = [q \in {} |-> <<>>]
    /\ rev' = {}
    /\ UNCHANGED <<llm, history, history_file, messages, assigned>>
    /\ UNCHANGED harnessVars

\* "Load this set" of the history entry at position k clicked
Load(k) ==
    /\ k \in 1..Len(history)
    /\ notice' = "loaded"
    /\ LET h == history[k]
           blocks == Parse(h.response)
       IN  /\ current_raw' = h.response
           /\ current_topic' = h.topic
           /\ current_num' = h.num
           /\ current_blocks' = blocks
           /\ sel' = Restrict(sel, KeptKeys(DOMAIN sel, Len(blocks)))
           /\ rev' = KeptKeys(rev, Len(blocks))
    /\ UNCHANGED <<llm, history, history_file, messages, llm_calls, assigned>>
    /\ UNCHANGED harnessVars

\* "Delete" also dropping the displayed set and its selection state
DeleteAndReset(k) ==
    /\ k \in 1..Len(history)
    /\ history' = DeleteById(history, history[k].id)
    /\ history_file' = save_history(history')
    /\ notice' = "none"
    /\ current_blocks' = <<>>
    /\ current_raw' = <<>>
    /\ sel' = [q \in {} |-> <<>>]
    /\ rev' = {}
    /\ UNCHANGED <<llm, messages, current_topic, current_num, llm_calls,
                   assigned>>
    /\ UNCHANGED harnessVars

\* "Delete" of the history entry at position k clicked
Delete(k) ==
    /\ k \in 1..Len(history)
    /\ history' = DeleteById(history, history[k].id)
    /\ history_file' = save_history(history')
    /\ notice' = "none"
    /\ UNCHANGED <<llm, messages, current_blocks, current_raw, current_topic,
                   current_num, sel, rev, llm_calls, assigned>>
    /\ UNCHANGED harnessVars

\* "Clear All History" clicked
ClearAll ==
    /\ history' = <<>>
    /\ history_file' = save_history(<<>>)
    /\ notice' = "cleared"
    /\ assigned' = {}
    /\ UNCHANGED <<llm, messages, current_blocks, current_raw, current_topic,
                   current_num, sel, rev, llm_calls>>
    /\ UNCHANGED harnessVars

Next ==
    \/ \E topic \in TopicInputs, num \in Counts : Generate(topic, num)
    \/ \E qid \in Qids : \E letter \in ButtonLetters(qid) : Choose(qid, letter)
    \/ \E qid \in Qids : Reveal(qid)
    \/ \E qid \in Qids : ChangeSelection(qid)
    \/ \E k \in 1..Len(history) : Load(k)
    \/ \E k \in 1..Len(history) : Delete(k)
    \/ ClearAll

Spec == Init /\ [][Next]_vars

(***************************************************************************)
(* The parser on its own: parse_mcqs applied to every raw text of up to    *)
(* MaxLines lines drawn from SampleLines.                                  *)
(***************************************************************************)
\* "1. Q"
LineQuestion == <<"1", ".", " ", "Q">>
\* "2."
LineBareNumber == <<"2", ".">>
\* "a) x answer: ab"
LineOptionA == <<"a", ")", " ", "x", " ",
                 "a", "n", "s", "w", "e", "r", ":", " ", "a", "b">>
\* "B. y Answer: b"
LineOptionB == <<"B", ".", " ", "y", " ",
                 "A", "n", "s", "w", "e", "r", ":", " ", "b">>
\* "c)z ANSWER:d"
LineNoOption == <<"c", ")", "z", " ",
                  "A", "N", "S", "W", "E", "R", ":", "d">>

SampleLines == {LineQuestion, LineBareNumber, LineOptionA, LineOptionB,
                LineNoOption}

\* "\n".join(ls)
RECURSIVE JoinLines(_)
JoinLines(ls) ==
    IF ls = <<>> THEN <<>>
    ELSE IF Len(ls) = 1 THEN ls[1]
    ELSE ls[1] \o <<"\n">> \o JoinLines(Tail(ls))

ParseInputs ==
    {JoinLines(ls) : ls \in UNION {[1..n -> SampleLines] : n \in 0..MaxLines}}

ParseInit ==
    /\ llm = "none"
    /\ history_file = FileAbsent
    /\ history = load_history(history_file)
    /\ messages = 0
    /\ current_blocks = <<>>
    /\ current_raw = <<>>
    /\ current_topic = <<>>
    /\ current_num = 0
    /\ sel = [k \in {} |-> <<>>]
    /\ rev = {}
    /\ llm_calls = 0
    /\ assigned = {}
    /\ notice = "none"
    /\ text \in ParseInputs
    /\ out = <<>>
    /\ called = FALSE

ParseCall ==
    /\ ~called
    /\ out' = parse_mcqs(text)
    /\ called' = TRUE
    /\ UNCHANGED text
    /\ UNCHANGED sessionVars

ParseNext == ParseCall

ParseSpec == ParseInit /\ [][ParseNext]_vars

(***************************************************************************)
(* Properties.                                                             *)
(***************************************************************************)
Ids(items) == {items[k].id : k \in 1..Len(items)}
MaxIdOf(items) ==
    IF items = <<>> THEN 0
    ELSE CHOOSE i \in Ids(items) : \A j \in Ids(items) : j <= i

\* every character of s is whitespace (the empty string included)
WhitespaceOnly(s) == \A k \in 1..Len(s) : IsSpace(s[k])

\* this step is a Generate click
GenerateStep == \E topic \in TopicInputs, num \in Counts : Generate(topic, num)
\* this step is a Generate click that called the model
AcceptedGenerateStep == llm_calls' = llm_calls + 1 /\ GenerateStep
\* this step is a "Load this set" click
LoadStep == \E k \in 1..Len(history) : Load(k)
\* this step replaces the displayed question set
ReplaceStep == AcceptedGenerateStep \/ LoadStep

\* the session state a refused Generate click must leave alone
Untouched ==
    UNCHANGED <<llm_calls, messages, current_raw, current_blocks,
                current_topic, current_num, sel, rev, history, history_file>>

\* C1: right after the displayed set is replaced (an accepted generate or a
\* load), no qid at all carries a chosen letter or a revealed flag, whatever
\* the lengths of the old and the new set.
C1_ReplaceWipesSelection ==
    [][ReplaceStep => (DOMAIN sel' = {} /\ rev' = {})]_vars

\* a one-question set was loaded while a two-question set is in the history,
\* and nothing is selected or revealed
C1_Witness ==
    /\ notice = "loaded"
    /\ Len(current_blocks) = 1
    /\ \E k \in 1..Len(history) : Len(parse_mcqs(history[k].response)) = 2
    /\ DOMAIN sel = {}
    /\ rev = {}

\* C2 as stated: the id of a newly appended record differs from every id
\* assigned earlier (since the last clear), deleted records included.
C2_IdsNeverReused ==
    [][Len(history') > Len(history)
         => history'[Len(history')].id \notin assigned]_vars

\* C2 amended: the id of a newly appended record differs from every earlier
\* id that is at most the id of some record still in the history; only the
\* ids of a deleted tail are handed out again.
C2_IdsNotReusedBelowSurvivor ==
    [][Len(history') > Len(history)
         => \A i \in assigned :
                (\E k \in 1..Len(history) : history[k].id >= i)
                    => history'[Len(history')].id # i]_vars

\* the first of two records was deleted and a third appended: ids 2, 3, with
\* the deleted id 1 not handed out again
C2_Witness ==
    /\ Len(history) = 2
    /\ history[1].id = 2
    /\ history[2].id = 3
    /\ 1 \in assigned

\* C3: the ids of the records in the history are positive and pairwise
\* distinct.
C3_IdsPositiveDistinct ==
    /\ \A k \in 1..Len(history) : history[k].id > 0
    /\ \A k, m \in 1..Len(history) : k # m => history[k].id # history[m].id

\* three records were appended and the middle one deleted
C3_Witness ==
    /\ Len(history) = 2
    /\ history[1].id = 1
    /\ history[2].id = 3

\* C4: the id append would assign (last id + 1, or 1) equals the largest id
\* in the history plus one, and the ids increase strictly in list order.
C4_NewIdIsMaxPlusOne ==
    /\ NewId(history) = MaxIdOf(history) + 1
    /\ \A k \in 1..(Len(history) - 1) : history[k].id < history[k + 1].id

\* the history was cleared after two generations and one record appended
\* since: it has id 1 again
C4_Witness ==
    /\ llm_calls = 3
    /\ assigned = {1}
    /\ Len(history) = 1
    /\ history[1].id = 1

\* C5: what the history file holds, as load_history reads it, is the
\* in-memory history, record for record and in the same order.
C5_StoreMatchesMemory ==
    /\ load_history(history_file) = history
    /\ (history # <<>> => history_file.exists /\ history_file.valid)

\* the file holds the two records left after a deletion
C5_Witness ==
    /\ history_file.valid
    /\ Len(history_file.items) = 2
    /\ history_file.items[2].id = 3
    /\ llm_calls = 3

\* C6: for a revealed question of the displayed set no option button, no
\* "Change selection" and no "Show answer" is offered, and unless the step
\* replaces the displayed set the question stays revealed with the same
\* chosen letter (or none).
C6_RevealedAbsorbing ==
    [][\A qid \in rev \cap Qids :
         /\ ~ChooseOffered(qid)
         /\ ~ChangeOffered(qid)
         /\ ~RevealOffered(qid)
         /\ \/ /\ qid \in rev'
               /\ (qid \in DOMAIN sel') = (qid \in DOMAIN sel)
               /\ (qid \in DOMAIN sel => sel'[qid] = sel[qid])
            \/ ReplaceStep]_vars

\* a question was answered and then revealed, another one revealed unanswered
C6_Witness ==
    /\ \E qid \in rev \cap Qids : qid \in DOMAIN sel
    /\ \E qid \in rev \cap Qids : qid \notin DOMAIN sel

\* C7: a Generate click with an empty or whitespace-only topic calls no model
\* and changes neither the current set, topic and count, nor the selection
\* state, the history or the history file.
C7_BlankTopicMutatesNothing ==
    [][\A topic \in TopicInputs, num \in Counts :
         (WhitespaceOnly(topic) /\ Generate(topic, num)) => Untouched]_vars

\* "Enter a topic." was shown over a session that has a set, a selection and
\* a saved run
C7_Witness ==
    /\ notice = "enter_topic"
    /\ current_blocks # <<>>
    /\ DOMAIN sel # {}
    /\ history # <<>>

\* C8: without a usable key (get_llm returned None) a Generate click, whatever
\* the topic and the count, calls no model and changes neither the current
\* set, the selection state nor the history.
C8_NoCredentialRefused ==
    [][llm = get_llm(NoValue) /\ GenerateStep => Untouched]_vars

\* the click was refused with the missing-key message
C8_Witness ==
    /\ llm = get_llm(NoValue)
    /\ notice = "missing_key"
    /\ llm_calls = 0

\* the letters of the options of a record
RecordLetters(rec) == [k \in 1..Len(rec.options) |-> OptLetter(rec.options[k])]

\* C9 as stated: every record of parse_mcqs(text) has a non-empty question and
\* 1 to 4 options with pairwise distinct letters.
C9_RecordsDistinctLetters ==
    called =>
        \A r \in 1..Len(out) :
            /\ out[r].question # <<>>
            /\ Len(out[r].options) \in 1..4
            /\ \A k, m \in 1..Len(out[r].options) :
                   k # m => RecordLetters(out[r])[k] # RecordLetters(out[r])[m]

\* C9 amended: every record of parse_mcqs(text) has a non-empty question and
\* 1 to 4 options, each carrying one letter of a-d; the letters may repeat.
C9_RecordsWellFormed ==
    called =>
        \A r \in 1..Len(out) :
            /\ out[r].question # <<>>
            /\ Len(out[r].options) \in 1..4
            /\ \A k \in 1..Len(out[r].options) :
                   /\ Len(RecordLetters(out[r])[k]) = 1
                   /\ RecordLetters(out[r])[k][1] \in OptionLetters

\* a record with four options, two of them with the same letter
C9_Witness ==
    /\ called
    /\ \E r \in 1..Len(out) :
           /\ Len(out[r].options) = 4
           /\ \E k, m \in 1..4 :
                  k # m /\ RecordLetters(out[r])[k] = RecordLetters(out[r])[m]

\* C10: a Generate click with a key and a topic that is not blank calls the
\* model exactly once and appends exactly one record, whose response is the
\* returned text; the earlier records stay as they were.
C10_AcceptedGenerateAppendsOne ==
    [][\A topic \in TopicInputs, num \in Counts :
         (llm # get_llm(NoValue) /\ ~WhitespaceOnly(topic) /\ Generate(topic, num))
             => /\ llm_calls' = llm_calls + 1
                /\ Len(history') = Len(history) + 1
                /\ SubSeq(history', 1, Len(history)) = history
                /\ history'[Len(history')].response = current_raw'
                /\ current_raw' \in ModelClient(Strip(topic), num)]_vars

\* the second accepted generation of a session: two calls, two records, the
\* last one holding the current raw text
C10_Witness ==
    /\ llm_calls = 2
    /\ Len(history) = 2
    /\ history[2].response = current_raw
    /\ history[1].response # current_raw

\* C11: a "Load this set" click calls no model and leaves the history and the
\* history file as they were; afterwards the current raw text is the stored
\* response of the record clicked and the current set is parse_mcqs of it.
C11_LoadReparsesStoredText ==
    [][\A k \in 1..Len(history) :
         Load(k) => /\ llm_calls' = llm_calls
                    /\ history' = history
                    /\ history_file' = history_file
                    /\ current_raw' = history[k].response
                    /\ current_blocks' = Parse(history[k].response)]_vars

\* an older record was loaded over the set generated last
C11_Witness ==
    /\ notice = "loaded"
    /\ Len(history) = 2
    /\ current_raw = history[1].response
    /\ current_raw # history[2].response
    /\ current_blocks # <<>>

\* C12: in every state a render starts from, the current set is parse_mcqs of
\* the current raw text and every qid with a sel_ or rev_ key is an index of
\* the current set.
C12_ConsistentSnapshot ==
    /\ current_blocks = parse_mcqs(current_raw)
    /\ \A qid \in DOMAIN sel \cup rev : qid \in 0..(Len(current_blocks) - 1)

\* a one-question set with its question answered and revealed is displayed
\* while the history holds a two-question set
C12_Witness ==
    /\ Len(current_blocks) = 1
    /\ 0 \in DOMAIN sel
    /\ 0 \in rev
    /\ \E k \in 1..Len(history) : history[k].response = TextTwo

\* the positions of the options of question qid
OptionIdx(qid) == 1..Len(Block(qid).options)
\* the letter of option k of question qid
LetterOf(qid, k) == OptLetter(Block(qid).options[k])

\* C13: for a revealed question, a tile is "correct" exactly when its letter
\* is the answer letter, "wrong" exactly when a choice was made, the tile
\* carries the chosen letter and that letter is not the answer, and
\* "neutral" otherwise; with no choice, or with the answer chosen, no tile is
\* "wrong".
C13_RevealedColours ==
    \A qid \in rev \cap Qids :
        /\ \A k \in OptionIdx(qid) :
             LET isAnswer == LetterOf(qid, k) = Block(qid).answer
                 isBadChoice == /\ qid \in DOMAIN sel
                                /\ LetterOf(qid, k) = sel[qid]
                                /\ sel[qid] # Block(qid).answer
             IN  /\ (Css(qid, k) = "option-correct") = isAnswer
                 /\ (Css(qid, k) = "option-wrong") = isBadChoice
                 /\ (Css(qid, k) = "option-neutral") = (~isAnswer /\ ~isBadChoice)
        /\ (qid \notin DOMAIN sel \/ sel[qid] = Block(qid).answer)
               => \A k \in OptionIdx(qid) : Css(qid, k) # "option-wrong"

\* a question was answered wrongly and revealed: one tile is "correct",
\* another one "wrong"
C13_Witness ==
    \E qid \in rev \cap Qids :
        /\ qid \in DOMAIN sel
        /\ \E k, m \in OptionIdx(qid) :
               Css(qid, k) = "option-correct" /\ Css(qid, m) = "option-wrong"

\* C16 as stated: for a revealed question whose answer is empty every tile is
\* "neutral", with or without a choice.
C16_EmptyAnswerAllNeutral ==
    \A qid \in rev \cap Qids :
        Block(qid).answer = <<>>
            => \A k \in OptionIdx(qid) : Css(qid, k) = "option-neutral"

\* C16 amended: for a revealed question whose answer is empty no tile is
\* "correct"; the tile of the chosen letter, when a choice was made, is
\* "wrong" and every other tile is "neutral".
C16_EmptyAnswerChoiceWrong ==
    \A qid \in rev \cap Qids :
        Block(qid).answer = <<>>
            => \A k \in OptionIdx(qid) :
                   Css(qid, k) =
                       IF qid \in DOMAIN sel /\ LetterOf(qid, k) = sel[qid]
                       THEN "option-wrong" ELSE "option-neutral"

\* a question without an answer was answered and then revealed
C16_Witness ==
    \E qid \in rev \cap Qids :
        /\ Block(qid).answer = <<>>
        /\ qid \in DOMAIN sel
        /\ \E k \in OptionIdx(qid) : Css(qid, k) = "option-wrong"

\* C17: for a question with a choice that is not revealed, the tile of the
\* chosen letter is "correct" if that letter is the answer and "wrong"
\* otherwise, every other tile is "neutral"; after a wrong choice no tile is
\* "correct".
C17_SelectedColours ==
    \A qid \in Qids :
        (qid \in DOMAIN sel /\ qid \notin rev) =>
            /\ \A k \in OptionIdx(qid) :
                   Css(qid, k) =
                       IF LetterOf(qid, k) = sel[qid]
                       THEN (IF sel[qid] = Block(qid).answer
                             THEN "option-correct" ELSE "option-wrong")
                       ELSE "option-neutral"
            /\ sel[qid] # Block(qid).answer
                   => \A k \in OptionIdx(qid) : Css(qid, k) # "option-correct"

\* a wrong choice on a question that has an answer among its options, not
\* revealed
C17_Witness ==
    \E qid \in Qids :
        /\ qid \in DOMAIN sel
        /\ qid \notin rev
        /\ sel[qid] # Block(qid).answer
        /\ \E k \in OptionIdx(qid) : LetterOf(qid, k) = Block(qid).answer

\* the number of records of items[1..i] whose id is id
CountId(items, i, id) == Cardinality({j \in 1..i : items[j].id = id})

\* after is before without the records of that id: every other record kept
\* whole, shifted down by the number of removed records before it
RemovedExactly(before, after, id) ==
    /\ Len(after) = Len(before) - CountId(before, Len(before), id)
    /\ \A i \in 1..Len(before) :
           before[i].id # id => after[i - CountId(before, i, id)] = before[i]

\* C14: a Delete click removes exactly the records with the clicked id and
\* keeps every other record unchanged (id, timestamp, topic, count, response)
\* and in the same relative order; an append to a non-empty history keeps the
\* records and gives the new one the id of the last record plus one.
C14_DeleteKeepsSurvivors ==
    [][/\ \A k \in 1..Len(history) :
             Delete(k) => RemovedExactly(history, history', history[k].id)
       /\ (AcceptedGenerateStep /\ history # <<>>)
             => /\ Len(history') = Len(history) + 1
                /\ SubSeq(history', 1, Len(history)) = history
                /\ history'[Len(history')].id = history[Len(history)].id + 1]_vars

\* records 1 and 2 appended, record 1 deleted, then a record appended
C14_Witness ==
    /\ Len(history) = 2
    /\ history[1].id = 2
    /\ history[2].id = 3
    /\ assigned = {1, 2, 3}

\* sel.get(qid), with <<>> for an absent key
ChosenLetter(f, qid) == IF qid \in DOMAIN f THEN f[qid] ELSE <<>>

\* the chosen letter of qid goes from absent to a letter of its options by
\* an option click, or from a letter to absent by "Change selection", the
\* question being not revealed
ChosenLetterStep(qid) ==
    \/ /\ qid \notin DOMAIN sel
       /\ qid \notin rev
       /\ qid \in Qids
       /\ ChosenLetter(sel', qid) \in ButtonLetters(qid)
       /\ Choose(qid, ChosenLetter(sel', qid))
    \/ /\ qid \in DOMAIN sel
       /\ qid \notin rev
       /\ qid \notin DOMAIN sel'
       /\ ChangeSelection(qid)

\* C18 as stated: the chosen letter of a question index changes only by an
\* option click from Unanswered or by "Change selection" from Selected while
\* not revealed, and option buttons are not offered in Selected or Revealed.
C18_ChosenLetterOnlyByClicks ==
    [][/\ \A qid \in Qids : (Chosen(qid) \/ Revealed(qid)) => ~ChooseOffered(qid)
       /\ \A qid \in DOMAIN sel \cup DOMAIN sel' :
             ChosenLetter(sel', qid) # ChosenLetter(sel, qid)
                 => ChosenLetterStep(qid)]_vars

\* C18 amended: the chosen letter of a question index changes only by an
\* option click from Unanswered, by "Change selection" from Selected while not
\* revealed, or by a replacement of the displayed set, which clears it also
\* for a revealed question; option buttons are not offered in Selected or
\* Revealed.
C18_ChosenLetterByClicksOrReplace ==
    [][/\ \A qid \in Qids : (Chosen(qid) \/ Revealed(qid)) => ~ChooseOffered(qid)
       /\ \A qid \in DOMAIN sel \cup DOMAIN sel' :
             ChosenLetter(sel', qid) # ChosenLetter(sel, qid)
                 => \/ ChosenLetterStep(qid)
                    \/ qid \notin DOMAIN sel' /\ ReplaceStep]_vars

\* question 0 with two options is Selected, question 1 was revealed unanswered
C18_Witness ==
    /\ Len(current_blocks) = 2
    /\ 0 \in DOMAIN sel
    /\ 0 \notin rev
    /\ Cardinality(ButtonLetters(0)) = 2
    /\ 1 \in rev
    /\ 1 \notin DOMAIN sel

\* C20: a Delete click and a "Clear All History" click leave the current raw
\* text, the current question set, its topic and count, and every chosen
\* letter and revealed flag unchanged.
C20_DeleteKeepsDisplayedSet ==
    [][((\E k \in 1..Len(history) : Delete(k)) \/ ClearAll)
          => UNCHANGED <<current_raw, current_blocks, current_topic,
                         current_num, sel, rev>>]_vars

\* the record the displayed set was generated into was deleted, the set and
\* its selection state are still there
C20_Witness ==
    /\ history = <<>>
    /\ assigned # {}
    /\ current_blocks # <<>>
    /\ current_raw # <<>>
    /\ DOMAIN sel # {}
    /\ rev # {}

\* the stripped non-empty lines of every part text is split into
TextBlockLines ==
    LET parts == SplitBlocks(Strip(text))
    IN  [b \in 1..Len(parts) |-> BlockLines(Strip(parts[b]))]

\* the positions after the first line whose line has the option shape
OptionPositions(ls) == {i \in 2..Len(ls) : OptMatches(ls[i])}

\* the lines of a part give a record: a question text and an option line
GivesRecord(ls) ==
    /\ ls # <<>>
    /\ StripNumber(ls[1]) # <<>>
    /\ OptionPositions(ls) # {}

\* the lines of the parts that give a record, in the order of the parts
RecordLines == SelectSeq(TextBlockLines, GivesRecord)

\* the j-th smallest number of S
NthOf(S, j) == CHOOSE i \in S : Cardinality({m \in S : m < i}) = j - 1

Min4(n) == IF n < 4 THEN n ELSE 4

\* C15: the options of every record of parse_mcqs(text) are the options of
\* the first min(4, k) of the k option lines after the first line of its block,
\* in the order of the lines, repeated letters included.
C15_FirstFourOptionLines ==
    called =>
        LET rl == RecordLines
        IN  /\ Len(out) = Len(rl)
            /\ \A r \in 1..Len(out) :
                   LET pos == OptionPositions(rl[r])
                       n == Min4(Cardinality(pos))
                   IN  /\ Len(out[r].options) = n
                       /\ \A j \in 1..n :
                              out[r].options[j] = OptionOf(rl[r][NthOf(pos, j)])

\* a block with five option lines whose fifth differs from its first: the
\* record keeps the first four, two of them with the same letter
C15_Witness ==
    /\ called
    /\ \E r \in 1..Len(out) :
           LET ls == RecordLines[r]
               pos == OptionPositions(ls)
           IN  /\ Cardinality(pos) = 5
               /\ ls[NthOf(pos, 5)] # ls[NthOf(pos, 1)]
               /\ Len(out[r].options) = 4
               /\ out[r].options[1] = out[r].options[2]

\* line has "answer:" (any case) at p, then only whitespace up to q, and at q
\* a letter of a-d (any case) that is followed by no word character
FragmentAt(line, p, q) ==
    /\ \A m \in 0..6 : LowerChar(line[p + m]) = AnswerWord[m + 1]
    /\ \A m \in (p + 7)..(q - 1) : IsSpace(line[m])
    /\ LowerChar(line[q]) \in OptionLetters
    /\ (q < Len(line) => ~IsWord(line[q + 1]))

\* the places <<p, q>> of the answer fragments of line
Fragments(line) ==
    {pq \in (1..(Len(line) - 7)) \X (8..Len(line)) :
        pq[2] >= pq[1] + 7 /\ FragmentAt(line, pq[1], pq[2])}

\* the lowercase letters of the leftmost answer fragments of line: one
\* letter, or none when line holds no fragment
FragmentLetters(line) ==
    LET fr == Fragments(line)
    IN  {<<LowerChar(line[x[2]])>> : x \in {y \in fr : \A z \in fr : y[1] <= z[1]}}

\* C19: the answer of every record of parse_mcqs(text) is the lowercase
\* letter of the first line of its block, the question line and the option
\* lines included, that holds an answer fragment with a whole-word letter of
\* a-d; it is empty exactly when no line of the block holds one.
C19_FirstAnswerFragmentWins ==
    called =>
        LET rl == RecordLines
        IN  /\ Len(out) = Len(rl)
            /\ \A r \in 1..Len(out) :
                   LET letters == [i \in 1..Len(rl[r]) |-> FragmentLetters(rl[r][i])]
                       at == {i \in 1..Len(rl[r]) : letters[i] # {}}
                   IN  /\ (out[r].answer = <<>>) = (at = {})
                       /\ at # {} => letters[NthOf(at, 1)] = {out[r].answer}

\* a block with two lines whose fragments name different letters, after a
\* line whose "answer:" is followed by a two-letter word
C19_Witness ==
    /\ called
    /\ \E r \in 1..Len(out) :
           LET ls == RecordLines[r]
               at == {i \in 1..Len(ls) : FragmentLetters(ls[i]) # {}}
           IN  /\ Cardinality(at) >= 2
               /\ \E i, j \in at :
                      /\ i < j
                      /\ FragmentLetters(ls[i]) # FragmentLetters(ls[j])
                      /\ FragmentLetters(ls[i]) = {out[r].answer}
               /\ \E i \in 1..Len(ls) :
                      /\ i < NthOf(at, 1)
                      /\ ls[i] = LineOptionA

====
